---- MODULE Spec2Model ----
(***************************************************************************)
(* Search index of the music collection (src/src/app/index/search.rs):     *)
(* the Builder that feeds songs into per-field text indexes, the bigram    *)
(* broad phase / substring narrow phase of TextFieldIndex, and the         *)
(* evaluator of parsed search expressions.                                 *)
(*                                                                         *)
(* Strings are sequences of one-character strings.  An Option<T> is a      *)
(* sequence of at most one T (<<>> is None, <<x>> is Some(x)).  A HashMap  *)
(* is a function whose DOMAIN is the set of keys present.                  *)
(***************************************************************************)
EXTENDS Integers, Sequences, FiniteSets, TLC

VARIABLES
    strings,        \* the interner (Rodeo): Spur i resolves to strings[i]
    canon,          \* canonical map: sanitized string -> Spur
    text_fields,    \* Builder/Search.text_fields: TextField -> TextFieldIndex
    number_fields,  \* Builder/Search.number_fields: NumberField -> NumberFieldIndex
    pending,        \* Option<(scanner song, storage song)>: stored, not yet added
    library,        \* history: the scanner songs passed to add_song
    inserted,       \* history: <<field, song key, raw value>> of every TextFieldIndex::insert
    phase,          \* "building" (Builder) or "built" (Search, after build())
    result          \* Option<outcome of the last find_songs call>

vars == <<strings, canon, text_fields, number_fields, pending, library,
          inserted, phase, result>>

(***************************************************************************)
(* Bounds of the model.                                                    *)
(***************************************************************************)
MaxSongs == 2
MaxList == 2
MaxQueryLen == 3

(***************************************************************************)
(* HashMap helpers.                                                        *)
(***************************************************************************)
EmptyMap == [x \in {} |-> x]

GetOr(m, k, default) == IF k \in DOMAIN m THEN m[k] ELSE default

Put(m, k, v) == [x \in (DOMAIN m) \cup {k} |-> IF x = k THEN v ELSE m[x]]

Range(s) == {s[i] : i \in DOMAIN s}

Min(a, b) == IF a < b THEN a ELSE b

\* Iterator::zip: pairs up to the shorter of the two sequences.
Zip(a, b) == [i \in 1..Min(Len(a), Len(b)) |-> <<a[i], b[i]>>]

(***************************************************************************)
(* Text, sanitization and bigrams.                                         *)
(***************************************************************************)
NGRAM_SIZE == 2

TextFields == {"Album", "AlbumArtist", "Artist", "Composer", "Genre",
               "Label", "Lyricist", "Path", "Title"}

NumberFields == {"Year", "TrackNumber", "DiscNumber"}

\* The upper-case letters and, at the same positions, their lower-case forms.
UpperCase == <<"A", "B", "C", "D", "E", "F", "G", "H", "I", "J", "K", "L", "M",
               "N", "O", "P", "Q", "R", "S", "T", "U", "V", "W", "X", "Y", "Z">>

LowerCase == <<"a", "b", "c", "d", "e", "f", "g", "h", "i", "j", "k", "l", "m",
               "n", "o", "p", "q", "r", "s", "t", "u", "v", "w", "x", "y", "z">>

LowerOf ==
    [c \in Range(UpperCase) |->
        LowerCase[CHOOSE i \in DOMAIN UpperCase : UpperCase[i] = c]]

\* char::to_lowercase: an upper-case letter becomes its lower-case form,
\* every other character is kept.
Lower(c) == IF c \in DOMAIN LowerOf THEN LowerOf[c] ELSE c

\* Characters that sanitization removes.
IsSeparator(c) == c = " "

\* storage::sanitize: drop separators, lowercase the rest.
sanitize(s) ==
    LET kept == SelectSeq(s, LAMBDA c : ~IsSeparator(c))
    IN  [i \in 1..Len(kept) |-> Lower(kept[i])]

\* slice::windows(n): every contiguous window of n elements, in order.
Windows(chars, n) ==
    [i \in 1..(Len(chars) - n + 1) |-> SubSeq(chars, i, i + n - 1)]

\* str::contains: needle is a contiguous substring of hay.
Contains(hay, needle) ==
    \E i \in 0..(Len(hay) - Len(needle)) :
        SubSeq(hay, i + 1, i + Len(needle)) = needle

(***************************************************************************)
(* Interner and canonical map (storage).                                   *)
(***************************************************************************)
\* Rodeo::get_or_intern: the Spur of s, s appended when it is new.
SpurOf(strs, s) == CHOOSE i \in 1..Len(strs) : strs[i] = s

get_or_intern(strs, s) ==
    IF s \in Range(strs)
    THEN [strings |-> strs, spur |-> SpurOf(strs, s)]
    ELSE [strings |-> Append(strs, s), spur |-> Len(strs) + 1]

\* RodeoReader::resolve
resolve(strs, spur) == strs[spur]

\* canonicalize: the Spur recorded for sanitize(raw); the first raw string
\* with a given sanitized form is interned and becomes its canonical symbol.
canonicalize(st, raw) ==
    LET cleaned == sanitize(raw)
    IN  IF cleaned \in DOMAIN st.canon
        THEN [strings |-> st.strings, canon |-> st.canon,
              spur |-> st.canon[cleaned]]
        ELSE LET r == get_or_intern(st.strings, raw)
             IN  [strings |-> r.strings,
                  canon |-> Put(st.canon, cleaned, r.spur),
                  spur |-> r.spur]

\* canonicalize applied to each element of a list (or Option) in order.
RECURSIVE CanonAll(_, _)
CanonAll(st, raws) ==
    IF raws = <<>>
    THEN [strings |-> st.strings, canon |-> st.canon, spurs |-> <<>>]
    ELSE LET c == canonicalize(st, Head(raws))
             rest == CanonAll(c, Tail(raws))
         IN  [strings |-> rest.strings, canon |-> rest.canon,
              spurs |-> <<c.spur>> \o rest.spurs]

\* storage::store_song: intern the virtual path (it is the song key) and
\* canonicalize every text attribute; numbers are copied through.
store_song(strs, cn, song) ==
    LET vp  == get_or_intern(strs, song.virtual_path)
        s0  == [strings |-> vp.strings, canon |-> cn]
        ti  == CanonAll(s0, song.title)
        ar  == CanonAll(ti, song.artists)
        aa  == CanonAll(ar, song.album_artists)
        al  == CanonAll(aa, song.album)
        ly  == CanonAll(al, song.lyricists)
        co  == CanonAll(ly, song.composers)
        ge  == CanonAll(co, song.genres)
        la  == CanonAll(ge, song.labels)
    IN  [strings |-> la.strings,
         canon |-> la.canon,
         song |-> [virtual_path |-> vp.spur,
                   title |-> ti.spurs,
                   artists |-> ar.spurs,
                   album_artists |-> aa.spurs,
                   album |-> al.spurs,
                   lyricists |-> ly.spurs,
                   composers |-> co.spurs,
                   genres |-> ge.spurs,
                   labels |-> la.spurs,
                   year |-> song.year,
                   track_number |-> song.track_number,
                   disc_number |-> song.disc_number]]

(***************************************************************************)
(* TextFieldIndex                                                          *)
(***************************************************************************)
EmptyTextFieldIndex == [exact |-> EmptyMap, ngrams |-> EmptyMap]

\* TextFieldIndex::insert
TextInsert(index, raw_value, value, key) ==
    LET characters == sanitize(raw_value)
        substrings == Range(Windows(characters, NGRAM_SIZE))
        ngrams == [b \in (DOMAIN index.ngrams) \cup substrings |->
                      IF b \in substrings
                      THEN Put(GetOr(index.ngrams, b, EmptyMap), key, value)
                      ELSE index.ngrams[b]]
        exact == Put(index.exact, value,
                     GetOr(index.exact, value, {}) \cup {key})
    IN  [exact |-> exact, ngrams |-> ngrams]

\* slice::sort_by_key(|h| h.len()): a stable sort by number of entries.
RECURSIVE SortByLen(_)
SortByLen(cands) ==
    IF cands = <<>> THEN <<>>
    ELSE LET least == CHOOSE n \in {Cardinality(DOMAIN cands[i]) : i \in DOMAIN cands} :
                          \A j \in DOMAIN cands : n <= Cardinality(DOMAIN cands[j])
         IN  SelectSeq(cands, LAMBDA h : Cardinality(DOMAIN h) = least)
             \o SortByLen(SelectSeq(cands, LAMBDA h : Cardinality(DOMAIN h) # least))

\* [broad phase] the songs of the driving posting that every other posting holds.
BroadPhase(candidates) ==
    {k \in DOMAIN candidates[1] :
        \A i \in 2..Len(candidates) : k \in DOMAIN candidates[i]}

\* Mutant of NarrowPhase: the narrow phase keeps every broad-phase candidate.
NarrowPhaseSkipped(strs, indexed_value, sanitized) == TRUE

\* [narrow phase] the recorded value, resolved and sanitized, contains the term.
NarrowPhase(strs, indexed_value, sanitized) ==
    Contains(sanitize(resolve(strs, indexed_value)), sanitized)

\* The posting map of every bigram of the sanitized term, in order (empty
\* when the bigram is absent).
Postings(index, sanitized) ==
    LET wins == Windows(sanitized, NGRAM_SIZE)
    IN  [i \in DOMAIN wins |-> GetOr(index.ngrams, wins[i], EmptyMap)]

\* The sorted postings filtered by the broad and the narrow phase.
FilterCandidates(strs, unsorted, sanitized) ==
    LET candidates == SortByLen(unsorted)
    IN  {k \in BroadPhase(candidates) :
            NarrowPhase(strs, candidates[1][k], sanitized)}

\* Mutant of find_like: a term without a bigram is looked up by scanning the
\* exact map instead of returning empty.
FindLikeScansShortTerms(index, strs, value) ==
    LET sanitized == sanitize(value)
        unsorted == Postings(index, sanitized)
    IN  IF unsorted = <<>>
        THEN UNION {index.exact[sym] : sym \in
                       {x \in DOMAIN index.exact :
                           Contains(sanitize(resolve(strs, x)), sanitized)}}
        ELSE FilterCandidates(strs, unsorted, sanitized)

\* TextFieldIndex::find_like
find_like(index, strs, value) ==
    LET sanitized == sanitize(value)
        unsorted == Postings(index, sanitized)
    IN  IF unsorted = <<>> THEN {}
        ELSE FilterCandidates(strs, unsorted, sanitized)

\* TextFieldIndex::find_exact
find_exact(index, cn, value) ==
    LET s == sanitize(value)
    IN  IF s \in DOMAIN cn /\ cn[s] \in DOMAIN index.exact
        THEN index.exact[cn[s]]
        ELSE {}

(***************************************************************************)
(* Builder                                                                 *)
(***************************************************************************)
\* The TextFieldIndex::insert calls of Builder::add_song, in program order:
\* <<field, raw value, symbol>>.
AddSongCalls(scanner_song, storage_song) ==
    LET tag(f, raws, spurs) ==
            LET z == Zip(raws, spurs)
            IN  [i \in DOMAIN z |-> <<f, z[i][1], z[i][2]>>]
    IN  tag("Album", scanner_song.album, storage_song.album)
        \o tag("AlbumArtist", scanner_song.album_artists, storage_song.album_artists)
        \o tag("Artist", scanner_song.artists, storage_song.artists)
        \o tag("Composer", scanner_song.composers, storage_song.composers)
        \o tag("Genre", scanner_song.genres, storage_song.genres)
        \o tag("Label", scanner_song.labels, storage_song.labels)
        \o tag("Lyricist", scanner_song.lyricists, storage_song.lyricists)
        \o <<<<"Path", scanner_song.virtual_path, storage_song.virtual_path>>>>
        \o tag("Title", scanner_song.title, storage_song.title)

\* text_fields.entry(field).or_default().insert(raw, spur, song_key), per call.
RECURSIVE ApplyInserts(_, _, _)
ApplyInserts(tf, calls, song_key) ==
    IF calls = <<>> THEN tf
    ELSE LET c == Head(calls)
             index == GetOr(tf, c[1], EmptyTextFieldIndex)
         IN  ApplyInserts(Put(tf, c[1], TextInsert(index, c[2], c[3], song_key)),
                          Tail(calls), song_key)

\* Builder::add_song
add_song(tf, scanner_song, storage_song) ==
    ApplyInserts(tf, AddSongCalls(scanner_song, storage_song),
                 storage_song.virtual_path)

(***************************************************************************)
(* NumberFieldIndex                                                        *)
(***************************************************************************)
\* An evaluation either returns a set of song keys or panics.
Returned(songs) == [panic |-> FALSE, songs |-> songs]

Panicked == [panic |-> TRUE, songs |-> {}]

EmptyNumberFieldIndex == [values |-> EmptyMap]

\* NumberFieldIndex::insert: the body is empty.
NumberInsert(index, raw_value, value, key) == index

\* NumberFieldIndex::find_equal: todo!()
find_equal(index, value) == Panicked

(***************************************************************************)
(* Search: evaluation of a parsed expression                               *)
(***************************************************************************)
Digits == <<"0", "1", "2", "3", "4", "5", "6", "7", "8", "9">>

\* i32::to_string
RECURSIVE NatToString(_)
NatToString(n) ==
    IF n < 10 THEN <<Digits[n + 1]>>
    ELSE NatToString(n \div 10) \o <<Digits[(n % 10) + 1]>>

decimal(n) == IF n < 0 THEN <<"-">> \o NatToString(0 - n) ELSE NatToString(n)

TextLit(s) == [kind |-> "Text", s |-> s, n |-> 0]

NumberLit(n) == [kind |-> "Number", s |-> <<>>, n |-> n]

Fuzzy(lit) == [tag |-> "Fuzzy", lit |-> lit]

TextCmp(field, op, s) == [tag |-> "TextCmp", field |-> field, op |-> op, s |-> s]

NumberCmp(field, op, n) == [tag |-> "NumberCmp", field |-> field, op |-> op, n |-> n]

Combined(e, op, f) == [tag |-> "Combined", e |-> e, op |-> op, f |-> f]

\* Mutant of eval_fuzzy_text: only the songs found in every text field.
EvalFuzzyTextIntersects(tf, strs, s) ==
    Returned({k \in UNION {find_like(tf[field], strs, s) : field \in DOMAIN tf} :
                 \A field \in DOMAIN tf : k \in find_like(tf[field], strs, s)})

\* Search::eval_fuzzy, Literal::Text arm: every text field, results unioned.
eval_fuzzy_text(tf, strs, s) ==
    Returned(UNION {find_like(tf[field], strs, s) : field \in DOMAIN tf})

\* Search::eval_fuzzy
eval_fuzzy(tf, nf, strs, value) ==
    IF value.kind = "Text"
    THEN eval_fuzzy_text(tf, strs, value.s)
    ELSE LET found == {find_equal(nf[field], value.n) : field \in DOMAIN nf}
             text == eval_fuzzy_text(tf, strs, decimal(value.n))
         IN  IF \E r \in found : r.panic
             THEN Panicked
             ELSE Returned(UNION {r.songs : r \in found} \cup text.songs)

\* Search::eval_text_operator
eval_text_operator(tf, strs, cn, field, operator, value) ==
    IF field \notin DOMAIN tf THEN Returned({})
    ELSE IF operator = "Eq"
         THEN Returned(find_exact(tf[field], cn, value))
         ELSE Returned(find_like(tf[field], strs, value))

\* Search::eval_number_operator: todo!()
eval_number_operator(nf, field, operator, value) == Panicked

\* Mutant of combine: the And arm takes the union too.
CombineAlwaysUnion(l, op, r) ==
    IF l.panic \/ r.panic THEN [panic |-> TRUE, songs |-> {}]
    ELSE [panic |-> FALSE, songs |-> l.songs \cup r.songs]

\* Search::combine, on the two evaluated operands.
combine(l, op, r) ==
    IF l.panic \/ r.panic THEN Panicked
    ELSE IF op = "And"
         THEN Returned({k \in l.songs : k \in r.songs})
         ELSE Returned(l.songs \cup {k \in r.songs : k \notin l.songs})

\* Search::eval
RECURSIVE eval(_, _, _, _, _)
eval(tf, nf, strs, cn, expr) ==
    CASE expr.tag = "Fuzzy" -> eval_fuzzy(tf, nf, strs, expr.lit)
      [] expr.tag = "TextCmp" ->
            eval_text_operator(tf, strs, cn, expr.field, expr.op, expr.s)
      [] expr.tag = "NumberCmp" ->
            eval_number_operator(nf, expr.field, expr.op, expr.n)
      [] expr.tag = "Combined" ->
            combine(eval(tf, nf, strs, cn, expr.e), expr.op,
                    eval(tf, nf, strs, cn, expr.f))

(***************************************************************************)
(* Query language: tokens and parser                                       *)
(*                                                                         *)
(* A query is a sequence of tokens: a word (bareword or quoted string,     *)
(* with its characters) or one of the operator symbols.  Whitespace        *)
(* between two atoms is juxtaposition, i.e. two adjacent atoms.            *)
(***************************************************************************)
Word(s) == [t |-> "word", s |-> s]

Sym(k) == [t |-> k, s |-> <<>>]

TextFieldName ==
    [Album |-> <<"a", "l", "b", "u", "m">>,
     AlbumArtist |-> <<"a", "l", "b", "u", "m", "a", "r", "t", "i", "s", "t">>,
     Artist |-> <<"a", "r", "t", "i", "s", "t">>,
     Composer |-> <<"c", "o", "m", "p", "o", "s", "e", "r">>,
     Genre |-> <<"g", "e", "n", "r", "e">>,
     Label |-> <<"l", "a", "b", "e", "l">>,
     Lyricist |-> <<"l", "y", "r", "i", "c", "i", "s", "t">>,
     Path |-> <<"p", "a", "t", "h">>,
     Title |-> <<"t", "i", "t", "l", "e">>]

NumberFieldName ==
    [Year |-> <<"y", "e", "a", "r">>,
     TrackNumber |-> <<"t", "r", "a", "c", "k">>,
     DiscNumber |-> <<"d", "i", "s", "c">>]

TextOps == [x \in {"=", "%"} |-> IF x = "=" THEN "Eq" ELSE "Like"]

NumberOps ==
    [x \in {"=", ">", "<", ">=", "<="} |->
        CASE x = "=" -> "Eq"
          [] x = ">" -> "Greater"
          [] x = "<" -> "Less"
          [] x = ">=" -> "GreaterOrEq"
          [] x = "<=" -> "LessOrEq"]

IsInteger(s) == s # <<>> /\ \A i \in DOMAIN s : s[i] \in Range(Digits)

DigitValue(c) == (CHOOSE d \in DOMAIN Digits : Digits[d] = c) - 1

RECURSIVE ToInt(_)
ToInt(s) ==
    IF s = <<>> THEN 0
    ELSE 10 * ToInt(SubSeq(s, 1, Len(s) - 1)) + DigitValue(s[Len(s)])

ParseFail == [ok |-> FALSE, expr |-> <<>>, rest |-> <<>>]

ParseOk(expr, rest) == [ok |-> TRUE, expr |-> expr, rest |-> rest]

\* literal := quoted_string | bareword | integer
ParseLiteral(tok) ==
    IF IsInteger(tok.s) THEN NumberLit(ToInt(tok.s)) ELSE TextLit(tok.s)

\* field_cmp := text_field text_op text_literal
\*            | number_field number_op number_literal
ParseFieldCmp(toks) ==
    IF Len(toks) < 3 \/ toks[1].t # "word" \/ toks[3].t # "word"
    THEN ParseFail
    ELSE IF /\ \E f \in TextFields : TextFieldName[f] = toks[1].s
            /\ toks[2].t \in DOMAIN TextOps
    THEN ParseOk(TextCmp(CHOOSE f \in TextFields : TextFieldName[f] = toks[1].s,
                         TextOps[toks[2].t], toks[3].s),
                 SubSeq(toks, 4, Len(toks)))
    ELSE IF /\ \E f \in NumberFields : NumberFieldName[f] = toks[1].s
            /\ toks[2].t \in DOMAIN NumberOps
            /\ IsInteger(toks[3].s)
    THEN ParseOk(NumberCmp(CHOOSE f \in NumberFields : NumberFieldName[f] = toks[1].s,
                           NumberOps[toks[2].t], ToInt(toks[3].s)),
                 SubSeq(toks, 4, Len(toks)))
    ELSE ParseFail

RECURSIVE ParseOr(_)
RECURSIVE ParseAnd(_)
RECURSIVE ParseAtom(_)
RECURSIVE ParseAndRest(_, _)
RECURSIVE ParseOrRest(_, _)

\* atom := "(" expr ")" | field_cmp | literal
ParseAtom(toks) ==
    IF toks = <<>> THEN ParseFail
    ELSE IF Head(toks).t = "("
    THEN LET inner == ParseOr(Tail(toks))
         IN  IF inner.ok /\ inner.rest # <<>> /\ Head(inner.rest).t = ")"
             THEN ParseOk(inner.expr, Tail(inner.rest))
             ELSE ParseFail
    ELSE IF Head(toks).t = "word"
    THEN LET cmp == ParseFieldCmp(toks)
         IN  IF cmp.ok THEN cmp
             ELSE ParseOk(Fuzzy(ParseLiteral(Head(toks))), Tail(toks))
    ELSE ParseFail

\* and_expr := atom ( ( "&&" | WS ) atom )*
ParseAndRest(left, toks) ==
    LET operand == IF toks # <<>> /\ Head(toks).t = "&&" THEN Tail(toks) ELSE toks
        next == IF toks # <<>> /\ Head(toks).t \in {"&&", "word", "("}
                THEN ParseAtom(operand)
                ELSE ParseFail
    IN  IF next.ok
        THEN ParseAndRest(Combined(left, "And", next.expr), next.rest)
        ELSE ParseOk(left, toks)

ParseAnd(toks) ==
    LET first == ParseAtom(toks)
    IN  IF first.ok THEN ParseAndRest(first.expr, first.rest) ELSE ParseFail

\* or_expr := and_expr ( "||" and_expr )*
ParseOrRest(left, toks) ==
    LET next == IF toks # <<>> /\ Head(toks).t = "||"
                THEN ParseAnd(Tail(toks))
                ELSE ParseFail
    IN  IF next.ok
        THEN ParseOrRest(Combined(left, "Or", next.expr), next.rest)
        ELSE ParseOk(left, toks)

ParseOr(toks) ==
    LET first == ParseAnd(toks)
    IN  IF first.ok THEN ParseOrRest(first.expr, first.rest) ELSE ParseFail

\* make_parser().parse(query): the whole input must be one expr.
parse(query) ==
    LET r == ParseOr(query)
    IN  IF r.ok /\ r.rest = <<>> THEN r ELSE ParseFail

\* Mutant of find_songs: a query that does not parse yields an empty Ok.
FindSongsIgnoresParseError(tf, nf, strs, cn, query) ==
    LET parsed_query == parse(query)
    IN  IF ~parsed_query.ok
        THEN [error |-> "", evaluated |-> FALSE, panic |-> FALSE, paths |-> {}]
        ELSE LET keys == eval(tf, nf, strs, cn, parsed_query.expr)
             IN  IF keys.panic
                 THEN [error |-> "", evaluated |-> TRUE, panic |-> TRUE, paths |-> {}]
                 ELSE [error |-> "", evaluated |-> TRUE, panic |-> FALSE,
                       paths |-> {resolve(strs, k) : k \in keys.songs}]

\* Search::find_songs
find_songs(tf, nf, strs, cn, query) ==
    LET parsed_query == parse(query)
    IN  IF ~parsed_query.ok
        THEN [error |-> "SearchQueryParseError", evaluated |-> FALSE,
              panic |-> FALSE, paths |-> {}]
        ELSE LET keys == eval(tf, nf, strs, cn, parsed_query.expr)
             IN  IF keys.panic
                 THEN [error |-> "", evaluated |-> TRUE, panic |-> TRUE, paths |-> {}]
                 ELSE [error |-> "", evaluated |-> TRUE, panic |-> FALSE,
                       paths |-> {resolve(strs, k) : k \in keys.songs}]

(***************************************************************************)
(* Inputs: the songs the scanner supplies and the queries users type.      *)
(***************************************************************************)
\* Tag values: a plain value, a value that differs from it only by case and
\* a separator, a longer value sharing its bigram, and a one-character value.
Values == {<<"a", "b">>, <<"A", " ", "b">>, <<"a", "b", "b">>, <<"b">>}

\* Virtual paths (unique per song).
Paths == {<<"a", "b">>, <<"1", "2">>}

Years == {12}

\* Sequences over S of length 0..n.
SeqUpTo(S, n) == UNION {[1..m -> S] : m \in 0..n}

ScannerSong(path, title, artists, year) ==
    [virtual_path |-> path, title |-> title, album |-> <<>>,
     artists |-> artists, album_artists |-> <<>>, composers |-> <<>>,
     genres |-> <<>>, labels |-> <<>>, lyricists |-> <<>>,
     year |-> year, track_number |-> <<>>, disc_number |-> <<>>]

\* A song with the album and every other list-valued tag filled.
TaggedSong(path, album, others) ==
    [virtual_path |-> path, title |-> <<>>, album |-> <<album>>,
     artists |-> <<>>, album_artists |-> <<others>>, composers |-> <<others>>,
     genres |-> <<others, album>>, labels |-> <<others>>, lyricists |-> <<others>>,
     year |-> <<>>, track_number |-> <<>>, disc_number |-> <<>>]

\* The titles of songs.
Titles == {<<"a", "b", "b">>, <<"A", " ", "b">>}

\* Songs with a title and artists, songs with every other tag, and songs
\* that carry only a path and a year.
Songs ==
    {ScannerSong(p, t, a, <<>>) :
        p \in Paths, t \in SeqUpTo(Titles, 1), a \in SeqUpTo(Values, MaxList)}
    \cup {TaggedSong(p, v, w) :
             p \in Paths, v \in Values, w \in {<<"a", "b", "b">>, <<"b">>}}
    \cup {ScannerSong(p, <<>>, <<>>, <<y>>) : p \in Paths, y \in Years}

\* The libraries that are queried through find_songs: songs without artists.
QuerySongs == {song \in Songs : song.artists = <<>>}

QueryAlphabet == {"a", "b", "A", " "}

\* Every query text of up to MaxQueryLen characters.
Queries == SeqUpTo(QueryAlphabet, MaxQueryLen)

\* Query strings that do not match the grammar: the empty string, a
\* comparison on an unknown field name, a dangling operator, an unclosed
\* parenthesis, a text operator on a number field, a number field compared
\* with a non-integer.
MalformedQueries ==
    {<<>>,
     <<Word(<<"a", "b">>), Sym("="), Word(<<"a", "b">>)>>,
     <<Word(<<"a", "b">>), Sym("&&")>>,
     <<Sym("("), Word(<<"a", "b">>)>>,
     <<Word(NumberFieldName.Year), Sym("%"), Word(<<"1", "2">>)>>,
     <<Word(NumberFieldName.Year), Sym("="), Word(<<"a", "b">>)>>}

\* Query strings that match the grammar.
WellFormedQueries ==
    {<<Word(<<"a", "b">>)>>,
     <<Word(<<"1", "2">>)>>,
     <<Word(TextFieldName.Artist), Sym("="), Word(<<"a", "b">>)>>,
     <<Word(TextFieldName.Title), Sym("%"), Word(<<"b", "b">>)>>,
     <<Word(<<"a", "b">>), Sym("&&"), Word(<<"b", "b">>)>>,
     <<Word(<<"a", "b">>), Word(<<"b", "b">>)>>,
     <<Word(<<"a", "b">>), Sym("||"), Word(<<"1", "2">>)>>,
     <<Sym("("), Word(<<"a", "b">>), Sym(")")>>,
     <<Word(NumberFieldName.Year), Sym("="), Word(<<"1", "2">>)>>}

QueryStrings == MalformedQueries \cup WellFormedQueries

(***************************************************************************)
(* State machine                                                           *)
(***************************************************************************)
Init ==
    /\ strings = <<>>
    /\ canon = EmptyMap
    /\ text_fields = EmptyMap
    /\ number_fields = EmptyMap
    /\ pending = <<>>
    /\ library = {}
    /\ inserted = {}
    /\ phase = "building"
    /\ result = <<>>

\* store_song(&mut strings, &mut canon, &song)
StoreSong(song) ==
    /\ phase = "building"
    /\ pending = <<>>
    /\ Cardinality(library) < MaxSongs
    /\ LET stored == store_song(strings, canon, song)
       IN  /\ strings' = stored.strings
           /\ canon' = stored.canon
           /\ pending' = <<[scanner |-> song, storage |-> stored.song]>>
    /\ UNCHANGED <<text_fields, number_fields, library, inserted, phase, result>>

\* builder.add_song(&song, &storage_song)
AddSong ==
    /\ phase = "building"
    /\ pending # <<>>
    /\ LET scanner_song == pending[1].scanner
           storage_song == pending[1].storage
           calls == AddSongCalls(scanner_song, storage_song)
       IN  /\ text_fields' = add_song(text_fields, scanner_song, storage_song)
           /\ library' = library \cup {scanner_song}
           /\ inserted' = inserted \cup
                  {<<calls[i][1], storage_song.virtual_path, calls[i][2]>> :
                      i \in DOMAIN calls}
    /\ pending' = <<>>
    /\ UNCHANGED <<strings, canon, number_fields, phase, result>>

\* builder.build() and strings.into_reader(): the index is frozen.
Build ==
    /\ phase = "building"
    /\ pending = <<>>
    /\ phase' = "built"
    /\ UNCHANGED <<strings, canon, text_fields, number_fields, pending,
                   library, inserted, result>>

\* search.find_songs(&strings, &canon, query)
FindSongs(query) ==
    /\ phase = "built"
    /\ result' = <<[query |-> query,
                    outcome |-> find_songs(text_fields, number_fields,
                                           strings, canon, query)]>>
    /\ UNCHANGED <<strings, canon, text_fields, number_fields, pending,
                   library, inserted, phase>>

\* Building the index.
Next ==
    \/ \E song \in Songs : StoreSong(song)
    \/ AddSong
    \/ Build

Spec == Init /\ [][Next]_vars

\* Building the index, then querying it.
NextQuery ==
    \/ \E song \in QuerySongs : StoreSong(song)
    \/ AddSong
    \/ Build
    \/ \E query \in QueryStrings : FindSongs(query)

SpecQuery == Init /\ [][NextQuery]_vars

(***************************************************************************)
(* Claims                                                                  *)
(***************************************************************************)
\* The song key of a scanner song of the library: the Spur of its path.
KeyOf(song) == SpurOf(strings, song.virtual_path)

\* TextFieldIndex::find_like on field f of the index, empty map entries
\* standing for a field that no song has filled.
Like(f, q) == find_like(GetOr(text_fields, f, EmptyTextFieldIndex), strings, q)

\* TextFieldIndex::find_exact on field f of the index.
Exact(f, q) == find_exact(GetOr(text_fields, f, EmptyTextFieldIndex), canon, q)

\* Search::eval on the index.
Eval(expr) == eval(text_fields, number_fields, strings, canon, expr)

\* The songs of field f that hold every bigram of q (the broad phase alone).
BroadMatches(f, q) ==
    LET index == GetOr(text_fields, f, EmptyTextFieldIndex)
        wins == Windows(sanitize(q), NGRAM_SIZE)
    IN  IF wins = <<>> THEN {}
        ELSE {k \in DOMAIN GetOr(index.ngrams, wins[1], EmptyMap) :
                 \A i \in DOMAIN wins : k \in DOMAIN GetOr(index.ngrams, wins[i], EmptyMap)}

\* C1: no bigram false positives.  On every built index, for every text
\* field f, query text q and song k, find_like on f with q returns k only if
\* some value v indexed for k in that same field f has sanitize(q) as a
\* contiguous substring of sanitize(v).
C1_NoBigramFalsePositives ==
    phase = "built" =>
        \A f \in DOMAIN text_fields : \A q \in Queries : \A k \in Like(f, q) :
            \E t \in inserted :
                /\ t[1] = f
                /\ t[2] = k
                /\ Contains(sanitize(t[3]), sanitize(q))

\* A built index in which a song holds every bigram of a query in one field
\* without holding the query there, and is not returned.
C1_Witness ==
    /\ phase = "built"
    /\ \E f \in DOMAIN text_fields : \E q \in Queries :
          \E k \in BroadMatches(f, q) : k \notin Like(f, q)

\* C2: overwriting the symbol of a bigram bucket loses no match.  On every
\* built index, for every value v indexed for song k in field f and every
\* query q of at least 2 sanitized characters whose sanitized form is a
\* substring of sanitize(v), find_like on f with q returns k.
C2_OverwriteLosesNoMatch ==
    phase = "built" =>
        \A t \in inserted : \A q \in Queries :
            (Len(sanitize(q)) >= 2 /\ Contains(sanitize(t[3]), sanitize(q)))
                => t[2] \in Like(t[1], q)

\* C3: exact match is complete and case-insensitive for every text field.
\* On every built index, for every value v indexed for song k in field f
\* and every query q with sanitize(q) = sanitize(v), find_exact on f with q
\* returns a set that contains k.
C3_ExactMatchComplete ==
    phase = "built" =>
        \A t \in inserted : \A q \in Queries :
            sanitize(q) = sanitize(t[3]) => t[2] \in Exact(t[1], q)

\* C4: exact results are a subset of like results.  On every built index,
\* for every value v indexed in field f (here: of at least 2 sanitized
\* characters, so that v has a bigram), find_exact on f with v is a subset
\* of find_like on f with v.
C4_ExactSubsetOfLike ==
    phase = "built" =>
        \A t \in inserted :
            Len(sanitize(t[3])) >= 2 => Exact(t[1], t[3]) \subseteq Like(t[1], t[3])

\* The scanner's input contract: no two songs of the library share a
\* virtual path.
UniquePaths ==
    \A s1, s2 \in library : s1.virtual_path = s2.virtual_path => s1 = s2

\* C5 as stated: for every song k (of a library with unique paths) and
\* query text q, if q literally appears in the sanitized Title of k then k
\* is in eval(Fuzzy(Text q)).
C5_FuzzyCoversTitleAnyLength ==
    (phase = "built" /\ UniquePaths) =>
        \A song \in library : \A q \in Queries :
            (song.title # <<>> /\ Contains(sanitize(song.title[1]), q))
                => KeyOf(song) \in Eval(Fuzzy(TextLit(q))).songs

\* C5 amended: for every song k (of a library with unique paths) and query
\* text q of at least 2 characters, if q literally appears in the sanitized
\* Title of k then k is in eval(Fuzzy(Text q)); and the fuzzy term returns,
\* for every text field, every song that find_like returns on that field.
C5_FuzzyCoversFields ==
    phase = "built" =>
        \A q \in Queries :
            LET found == Eval(Fuzzy(TextLit(q)))
            IN  /\ ~found.panic
                /\ \A song \in library :
                      (/\ UniquePaths
                       /\ song.title # <<>>
                       /\ Len(q) >= 2
                       /\ Contains(sanitize(song.title[1]), q))
                          => KeyOf(song) \in found.songs
                /\ \A f \in DOMAIN text_fields : Like(f, q) \subseteq found.songs

\* A built index where one fuzzy term returns a song that matches in its
\* title and another song that matches only in an artist.
C5_Witness ==
    /\ phase = "built"
    /\ UniquePaths
    /\ \E q \in Queries : \E s1, s2 \in library :
          /\ Len(q) >= 2
          /\ s1 # s2
          /\ s1.title # <<>> /\ Contains(sanitize(s1.title[1]), q)
          /\ KeyOf(s2) \notin Like("Title", q)
          /\ KeyOf(s2) \notin Like("Path", q)
          /\ KeyOf(s2) \in Like("Artist", q)
          /\ {KeyOf(s1), KeyOf(s2)} \subseteq Eval(Fuzzy(TextLit(q))).songs

\* The numbers that queries compare with.
Numbers == Years \cup {2}

\* The songs of the library whose number field f was supplied as n.
SongsWithNumber(f, n) ==
    {KeyOf(song) : song \in
        {s \in library :
            CASE f = "Year" -> s.year = <<n>>
              [] f = "TrackNumber" -> s.track_number = <<n>>
              [] f = "DiscNumber" -> s.disc_number = <<n>>}}

\* C6: numeric equality works.  On every built index (here: of a library
\* in which some song has a year), for every number field and number n,
\* evaluating NumberCmp(field, Eq, n) terminates normally and returns
\* exactly the songs whose value for that field equals n.
C6_NumericEquality ==
    (phase = "built" /\ \E song \in library : song.year # <<>>) =>
        \A f \in NumberFields : \A n \in Numbers :
            Eval(NumberCmp(f, "Eq", n)) = Returned(SongsWithNumber(f, n))

\* C7: a numeric fuzzy term finds numeric matches and text matches.  On
\* every built index, for every number n, eval(Fuzzy(Number n)) is the union
\* of the songs whose year, track or disc number is n with
\* eval(Fuzzy(Text(decimal(n)))).
C7_NumericFuzzy ==
    phase = "built" =>
        \A n \in Numbers :
            Eval(Fuzzy(NumberLit(n))) =
                Returned((UNION {SongsWithNumber(f, n) : f \in NumberFields})
                         \cup Eval(Fuzzy(TextLit(decimal(n)))).songs)

\* Expressions without a boolean operator.
Atoms ==
    {Fuzzy(TextLit(<<"a", "b">>)),
     TextCmp("Artist", "Eq", <<"a", "b">>),
     TextCmp("Title", "Like", <<"B", " ", "b">>),
     NumberCmp("Year", "Eq", 12)}

\* Atoms and combinations of two atoms.
Exprs ==
    Atoms \cup
    {Combined(Fuzzy(TextLit(<<"a", "b">>)), "And",
              TextCmp("Title", "Like", <<"B", " ", "b">>)),
     Combined(TextCmp("Artist", "Eq", <<"a", "b">>), "Or",
              NumberCmp("Year", "Eq", 12))}

\* C8: boolean composition is set algebra.  On every built index, for all
\* expressions e and f, eval(Combined(e, And, f)) is the intersection and
\* eval(Combined(e, Or, f)) the union of eval(e) and eval(f) (an operand
\* whose evaluation aborts aborts the combination), and neither depends on
\* the order of the operands.
C8_BooleanComposition ==
    phase = "built" =>
        \A e \in Exprs : \A f \in Atoms :
            LET l == Eval(e)
                r == Eval(f)
                both == Eval(Combined(e, "And", f))
                either == Eval(Combined(e, "Or", f))
            IN  /\ both.panic = (l.panic \/ r.panic)
                /\ either.panic = (l.panic \/ r.panic)
                /\ ~(l.panic \/ r.panic) =>
                      /\ both.songs = l.songs \cap r.songs
                      /\ either.songs = l.songs \cup r.songs
                /\ Eval(Combined(f, "And", e)) = both
                /\ Eval(Combined(f, "Or", e)) = either

\* A built index where the intersection of two operands is a song, and
\* their union holds a song that is in only one of them.
C8_Witness ==
    /\ phase = "built"
    /\ \E e, f \in Atoms :
          LET l == Eval(e)
              r == Eval(f)
          IN  /\ ~l.panic /\ ~r.panic
              /\ l.songs \cap r.songs # {}
              /\ l.songs \ r.songs # {}
              /\ Eval(Combined(e, "And", f)).songs = l.songs \cap r.songs
              /\ Eval(Combined(e, "Or", f)).songs = l.songs \cup r.songs

\* C9: a malformed query fails as a whole.  After every find_songs call on
\* a query string that does not match the grammar (the empty string and a
\* comparison on an unknown field name included), the call returned the
\* error SearchQueryParseError, ran no evaluation and returned no paths.
C9_MalformedQueryFails ==
    \A i \in DOMAIN result :
        result[i].query \in MalformedQueries =>
            /\ result[i].outcome.error = "SearchQueryParseError"
            /\ ~result[i].outcome.evaluated
            /\ ~result[i].outcome.panic
            /\ result[i].outcome.paths = {}

\* find_songs was called with a comparison on an unknown field name, on an
\* index that holds a song the right-hand side would match, and failed.
C9_Witness ==
    /\ library # {}
    /\ \E i \in DOMAIN result :
          /\ Len(result[i].query) = 3
          /\ result[i].query \in MalformedQueries
          /\ result[i].query[2].t = "="
          /\ Like("Path", result[i].query[3].s) # {}
          /\ result[i].outcome.error = "SearchQueryParseError"

\* C10: a query shorter than 2 sanitized characters returns empty.  On
\* every built index, for every query text whose sanitized form has fewer
\* than 2 characters, find_like on every text field returns the empty set,
\* and so does the fuzzy term the parser builds from that text.
C10_ShortQueryReturnsEmpty ==
    phase = "built" =>
        \A q \in Queries :
            Len(sanitize(q)) < 2 =>
                /\ \A f \in DOMAIN text_fields : Like(f, q) = {}
                /\ Eval(parse(<<Word(q)>>).expr) = Returned({})

\* A built index that holds a one-character value, which a query for that
\* value finds by exact match and not by find_like.
C10_Witness ==
    /\ phase = "built"
    /\ \E t \in inserted : \E q \in Queries :
          /\ Len(q) >= 2
          /\ Len(sanitize(q)) = 1
          /\ sanitize(q) = sanitize(t[3])
          /\ t[2] \in Exact(t[1], q)
          /\ Like(t[1], q) = {}

\* The value symbol add_song passes to TextFieldIndex::insert for a raw value
\* of a field: the interned virtual path for Path, and otherwise the
\* canonical symbol stored for the value's sanitized form.
SymbolOf(f, raw) ==
    IF f = "Path" THEN SpurOf(strings, raw) ELSE canon[sanitize(raw)]

\* C11: bigram posting invariant.  In every state reached by any sequence of
\* TextFieldIndex::insert calls, for every value v indexed for song k in
\* field f and every bigram b (length-2 window) of sanitize(v), ngrams[b] of
\* f contains k and ngrams[b][k] is the symbol of v.
C11_BigramPostingInvariant ==
    \A t \in inserted :
        LET ngrams == GetOr(text_fields, t[1], EmptyTextFieldIndex).ngrams
        IN  \A b \in Range(Windows(sanitize(t[3]), NGRAM_SIZE)) :
               /\ b \in DOMAIN ngrams
               /\ t[2] \in DOMAIN ngrams[b]
               /\ ngrams[b][t[2]] = SymbolOf(t[1], t[3])

====
